---- MODULE Spec2Model ----
(***************************************************************************)
(* Model of the Intentgram local data store: the localStorage slot         *)
(* 'profiles.v2', the category/profile repository operations of            *)
(* src/utils.ts and the form handlers of src/app.js.                       *)
(***************************************************************************)
EXTENDS Integers, Sequences, FiniteSets, TLC

VARIABLES
    slot,     \* the text held by localStorage under STORAGE_KEY
    uuid,     \* number of identifiers crypto.randomUUID() has issued
    last,     \* the last completed call: operation, arguments, outcome
    deleted,  \* ids for which deleteCategory has returned true
    pc,       \* position of each add-profile submit handler (src/app.js)
    local,    \* local variables of each add-profile submit handler
    out       \* the last application of a pure function: input and result

vars == <<slot, uuid, last, deleted, pc, local, out>>

(***************************************************************************)
(* Bounds of the model.                                                    *)
(***************************************************************************)
MaxCats == 2        \* longest array the slot holds initially / may grow to
MaxProfiles == 2    \* longest profiles array an operation appends to
MaxUuid == 2        \* identifiers issued in one behaviour

(***************************************************************************)
(* JavaScript / JSON values.  Scalars are strings; the values below stand  *)
(* for the scalars that are not strings.                                   *)
(***************************************************************************)
Undefined == "#undefined"   \* the value undefined
Missing == "#missing"       \* of a property: the object has no such property
JNull == "#null"
JNumber == "#number"

\* typeof of a property or variable holding v
TypeOf(v) ==
    IF v \in {Undefined, Missing} THEN "undefined"
    ELSE IF v = JNull THEN "object"
    ELSE IF v = JNumber THEN "number"
    ELSE "string"

\* an element of a profiles array: kind is "object" for a plain object and
\* "null" for null (readCategories does not look into the profiles)
Entry(kind, id, name, username, image) ==
    [kind |-> kind, id |-> id, name |-> name, username |-> username,
     imageDataUrl |-> image]

\* interface Profile
Profile(id, name, username, image) == Entry("object", id, name, username, image)

NullEntry == Entry("null", Missing, Missing, Missing, Missing)

\* the value of a `profiles` property: an array, or something else
Arr(elems) == [isArray |-> TRUE, typeof |-> "object", elems |-> elems]
NotArr(t) == [isArray |-> FALSE, typeof |-> t, elems |-> <<>>]

\* an element of the stored array.  kind is "object" for a plain object,
\* "null" for null, "array" for a nested array, "number" for a number.
Item(kind, id, name, keyword, profiles) ==
    [kind |-> kind, id |-> id, name |-> name, keyword |-> keyword,
     profiles |-> profiles]

\* interface Category (src/utils.ts) and the typedef of src/app.js, which
\* carries a keyword as well
Category(id, name, profiles) ==
    Item("object", id, name, Missing, Arr(profiles))

\* typeof item, with typeof null = typeof [] = 'object'
TypeOfItem(item) ==
    IF item.kind \in {"object", "null", "array"} THEN "object" ELSE item.kind

(***************************************************************************)
(* The text of the slot.  kind: "absent" (getItem returns null), "empty"   *)
(* (the empty string), "garbage" (not JSON), "object" / "number" (JSON     *)
(* that is not an array), "array".  ws tells whether the text carries      *)
(* insignificant white space, which JSON.stringify never writes.           *)
(***************************************************************************)
Text(kind, ws, items) == [kind |-> kind, ws |-> ws, items |-> items]

Absent == Text("absent", FALSE, <<>>)

\* JSON.stringify leaves out a property whose value is undefined
StringifyValue(v) == IF v = Undefined THEN Missing ELSE v

StringifyEntry(p) ==
    IF p.kind = "null" THEN p
    ELSE Entry(p.kind, StringifyValue(p.id), StringifyValue(p.name),
               StringifyValue(p.username), StringifyValue(p.imageDataUrl))

StringifyItem(c) ==
    IF c.kind # "object" THEN c
    ELSE Item(c.kind, StringifyValue(c.id), StringifyValue(c.name),
              StringifyValue(c.keyword),
              [c.profiles EXCEPT !.elems =
                   [i \in 1..Len(@) |-> StringifyEntry(@[i])]])

\* JSON.stringify(categories): compact text of the array
JsonStringify(categories) ==
    Text("array", FALSE, [i \in 1..Len(categories) |-> StringifyItem(categories[i])])

\* JSON.parse(raw) throws a SyntaxError
ParseThrows(raw) == raw.kind = "garbage"

\* Array.isArray(JSON.parse(raw))
ParsedIsArray(raw) == raw.kind = "array"

\* JSON.parse(raw) when it is an array: its elements
JsonParse(raw) == raw.items

\* !raw : null or the empty string
Falsy(raw) == raw.kind \in {"absent", "empty"}

(***************************************************************************)
(* Store, src/utils.ts                                                     *)
(***************************************************************************)
\* a variant of the type guard that does not look at the name
IsCategoryShapedNoName(item) ==
    /\ TypeOfItem(item) = "object"
    /\ item.kind # "null"
    /\ item.id # Missing
    /\ item.profiles.typeof # "undefined"
    /\ TypeOf(item.id) = "string"
    /\ item.profiles.isArray

\* the type guard of readCategories' filter (lines 57-66)
IsCategoryShaped(item) ==
    /\ TypeOfItem(item) = "object"
    /\ item.kind # "null"
    /\ item.id # Missing                      \* 'id' in item
    /\ item.name # Missing                    \* 'name' in item
    /\ item.profiles.typeof # "undefined"     \* 'profiles' in item
    /\ TypeOf(item.id) = "string"
    /\ TypeOf(item.name) = "string"
    /\ item.profiles.isArray

readCategories(raw) ==
    IF Falsy(raw) THEN <<>>
    ELSE IF ParseThrows(raw) THEN <<>>
    ELSE IF ~ParsedIsArray(raw) THEN <<>>
    ELSE SelectSeq(JsonParse(raw), IsCategoryShaped)

\* a variant that serializes with the replacer ['id', 'name', 'profiles']
writeCategoriesListedKeys(categories) ==
    JsonStringify([i \in 1..Len(categories) |->
                      [categories[i] EXCEPT !.keyword = Missing]])

\* writeCategories(categories): the text setItem stores
writeCategories(categories) == JsonStringify(categories)

\* the result of one call: the text the slot holds afterwards, what the call
\* returned ("true", "false", "throw" for the Error of a failed save,
\* "TypeError"), and whether setItem stored a text
Outcome(text, ret, wrote) == [slot |-> text, ret |-> ret, wrote |-> wrote]

\* a variant of the catch block that swallows the storage error
PersistSilently(raw, categories, full) ==
    IF full THEN Outcome(raw, "true", FALSE)
    ELSE Outcome(writeCategories(categories), "true", TRUE)

\* localStorage.setItem inside writeCategories' try block: full says that the
\* storage refuses the text (quota exceeded), and writeCategories rethrows
Persist(raw, categories, full) ==
    IF full THEN Outcome(raw, "throw", FALSE)
    ELSE Outcome(writeCategories(categories), "true", TRUE)

\* a call of writeCategories with any value: the Array.isArray guard throws
\* before the storage is touched, the try block stores or rethrows
writeCategoriesCall(raw, categories, full) ==
    IF ~categories.isArray THEN Outcome(raw, "TypeError", FALSE)
    ELSE Persist(raw, categories.elems, full)

(***************************************************************************)
(* Repository operations, src/utils.ts.  Sequences are 1-based, so the     *)
(* index -1 of findIndex is 0 here.                                        *)
(***************************************************************************)
\* categories.findIndex(c => c.id === categoryId)
findIndex(categories, categoryId) ==
    IF \E i \in 1..Len(categories) : categories[i].id = categoryId
    THEN CHOOSE i \in 1..Len(categories) :
            /\ categories[i].id = categoryId
            /\ \A j \in 1..(i - 1) : categories[j].id # categoryId
    ELSE 0

\* profiles.findIndex(p => p.id === profileId)
findProfileIndex(profiles, profileId) ==
    IF \E i \in 1..Len(profiles) : profiles[i].id = profileId
    THEN CHOOSE i \in 1..Len(profiles) :
            /\ profiles[i].id = profileId
            /\ \A j \in 1..(i - 1) : profiles[j].id # profileId
    ELSE 0

\* the callback p => p.id === profileId reads p.id of a null element before
\* it reaches a match: a TypeError
FindProfileThrows(profiles, profileId) ==
    \E i \in 1..Len(profiles) :
        /\ profiles[i].kind = "null"
        /\ \A j \in 1..(i - 1) : profiles[j].id # profileId

\* profiles.splice(profileIndex, 1)
Splice(seq, i) == SubSeq(seq, 1, i - 1) \o SubSeq(seq, i + 1, Len(seq))

\* String.prototype.trim on the strings of the model
Trim(s) ==
    CASE s = " " -> ""
      [] s = " Work " -> "Work"
      [] s = " jdoe " -> "jdoe"
      [] s = " Jane " -> "Jane"
      [] s = " data:image/png;base64,AA " -> "data:image/png;base64,AA"
      [] OTHER -> s

\* the value null where a Category is expected
NullItem == Item("null", Missing, Missing, Missing, NotArr("undefined"))

findCategoryById(raw, categoryId) ==
    IF TypeOf(categoryId) # "string" \/ Trim(categoryId) = "" THEN NullItem
    ELSE LET categories == readCategories(raw)
             i == findIndex(categories, categoryId)
         IN  IF i = 0 THEN NullItem ELSE categories[i]

\* a variant of push that puts the profile in front (unshift)
PushFront(categories, categoryIndex, profile) ==
    [categories EXCEPT ![categoryIndex].profiles.elems = <<profile>> \o @]

\* categories[categoryIndex].profiles.push(profile)
Push(categories, categoryIndex, profile) ==
    [categories EXCEPT ![categoryIndex].profiles.elems = Append(@, profile)]

\* a variant that writes the document back also when no category matches
addProfileToCategoryAlwaysWrites(raw, categoryId, profile, full) ==
    LET categories == readCategories(raw)
        categoryIndex == findIndex(categories, categoryId)
    IN  IF categoryIndex = 0
        THEN Outcome(writeCategories(categories), "false", TRUE)
        ELSE Persist(raw, Push(categories, categoryIndex, profile), full)

addProfileToCategory(raw, categoryId, profile, full) ==
    LET categories == readCategories(raw)
        categoryIndex == findIndex(categories, categoryId)
    IN  IF categoryIndex = 0 THEN Outcome(raw, "false", FALSE)
        ELSE Persist(raw, Push(categories, categoryIndex, profile), full)

\* a variant that writes the document back when no profile matches
removeProfileFromCategoryAlwaysWrites(raw, categoryId, profileId, full) ==
    LET categories == readCategories(raw)
        categoryIndex == findIndex(categories, categoryId)
    IN  IF categoryIndex = 0 THEN Outcome(raw, "false", FALSE)
        ELSE LET profiles == categories[categoryIndex].profiles.elems
                 profileIndex == findProfileIndex(profiles, profileId)
             IN  IF FindProfileThrows(profiles, profileId)
                 THEN Outcome(raw, "TypeError", FALSE)
                 ELSE IF profileIndex = 0
                      THEN Outcome(writeCategories(categories), "false", TRUE)
                 ELSE Persist(raw,
                              [categories EXCEPT ![categoryIndex].profiles.elems =
                                                     Splice(@, profileIndex)],
                              full)

removeProfileFromCategory(raw, categoryId, profileId, full) ==
    LET categories == readCategories(raw)
        categoryIndex == findIndex(categories, categoryId)
    IN  IF categoryIndex = 0 THEN Outcome(raw, "false", FALSE)
        ELSE LET profiles == categories[categoryIndex].profiles.elems
                 profileIndex == findProfileIndex(profiles, profileId)
             IN  IF FindProfileThrows(profiles, profileId)
                 THEN Outcome(raw, "TypeError", FALSE)
                 ELSE IF profileIndex = 0 THEN Outcome(raw, "false", FALSE)
                 ELSE Persist(raw,
                              [categories EXCEPT ![categoryIndex].profiles.elems =
                                                     Splice(@, profileIndex)],
                              full)

\* a variant that removes the first match only (splice at findIndex)
deleteCategoryFirstMatch(raw, categoryId, full) ==
    LET categories == readCategories(raw)
        categoryIndex == findIndex(categories, categoryId)
    IN  IF categoryIndex = 0 THEN Outcome(raw, "false", FALSE)
        ELSE Persist(raw, Splice(categories, categoryIndex), full)

deleteCategory(raw, categoryId, full) ==
    LET categories == readCategories(raw)
        IsOther(c) == c.id # categoryId
        filtered == SelectSeq(categories, IsOther)
    IN  IF Len(filtered) = Len(categories) THEN Outcome(raw, "false", FALSE)
        ELSE Persist(raw, filtered, full)

(***************************************************************************)
(* Store and query helper of src/app.js: the page's own copies, without    *)
(* the shape filter and without the error translation.                     *)
(***************************************************************************)
readCategoriesApp(raw) ==
    IF Falsy(raw) THEN <<>>
    ELSE IF ParseThrows(raw) THEN <<>>
    ELSE IF ~ParsedIsArray(raw) THEN <<>>
    ELSE JsonParse(raw)

writeCategoriesApp(raw, categories, full) ==
    IF full THEN Outcome(raw, "throw", FALSE)
    ELSE Outcome(JsonStringify(categories), "void", TRUE)

\* c => c.id === categoryId reads c.id of a null element before a match
FindThrows(categories, categoryId) ==
    \E i \in 1..Len(categories) :
        /\ categories[i].kind = "null"
        /\ \A j \in 1..(i - 1) : categories[j].id # categoryId

\* crypto.randomUUID(): the n-th identifier issued; no two are equal
randomUUID(n) == "u" \o ToString(n)

(***************************************************************************)
(* Inputs of the operations.                                               *)
(***************************************************************************)
P1 == Profile("p1", "Jane", "jdoe", Undefined)
P2 == Profile("p2", "Bob", "bob", "data:image/png;base64,AA")

ProfileArgs == {P1, P2}
ProfileIdArgs == {"p1", "p2", "zz"}
CategoryIdArgs == {"c1", "c2", "zz"}
IssuedIds == {randomUUID(n) : n \in 1..MaxUuid}
NameInputs == {"", " ", "Work", " Work "}

\* a run of successful addProfileToCategory calls on one category, with no
\* other call in between: the category's profiles before the first call of
\* the run, and the profiles the calls stored, in call order
Run(categoryId, before, added) ==
    [categoryId |-> categoryId, before |-> before, added |-> added]

NoRun == Run(Undefined, <<>>, <<>>)

\* the record of a completed call: the operation, the page that ran it (0
\* for a call of src/utils.ts), what it returned ("throw" when it threw a
\* failed save, "TypeError"), whether setItem stored a text, the sequence a
\* read returned, and the run of adds the call belongs to
Call(op, by, ret, wrote, value) ==
    [op |-> op, by |-> by, ret |-> ret, wrote |-> wrote, value |-> value,
     run |-> NoRun]

\* `last` when no call has completed
NoCall == Call("none", 0, "void", FALSE, <<>>)

\* number of profiles of the category an add would append to
TargetSize(raw, categoryId) ==
    LET categories == readCategories(raw)
        i == findIndex(categories, categoryId)
    IN  IF i = 0 THEN 0 ELSE Len(categories[i].profiles.elems)

(***************************************************************************)
(* Actions: one per call of an exported function of src/utils.ts.          *)
(***************************************************************************)
ReadCategories ==
    /\ last' = Call("readCategories", 0, "return", FALSE, readCategories(slot))
    /\ UNCHANGED <<slot, uuid, deleted, pc, local, out>>

\* writeCategories(readCategories())
WriteBack(full) ==
    LET o == Persist(slot, readCategories(slot), full)
    IN  /\ slot' = o.slot
        /\ last' = Call("writeBack", 0, o.ret, o.wrote, <<>>)
        /\ UNCHANGED <<uuid, deleted, pc, local, out>>

\* the run after a successful add: the run of the call before, extended, or
\* a new one that starts from the profiles the category held
NextRun(raw, categoryId, profile) ==
    LET categories == readCategories(raw)
        stored == StringifyEntry(profile)
    IN  IF last.run.categoryId = categoryId
        THEN [last.run EXCEPT !.added = Append(@, stored)]
        ELSE Run(categoryId,
                 categories[findIndex(categories, categoryId)].profiles.elems,
                 <<stored>>)

AddProfileToCategory(categoryId, profile, full) ==
    /\ TargetSize(slot, categoryId) < MaxProfiles
    /\ LET o == addProfileToCategory(slot, categoryId, profile, full)
       IN  /\ slot' = o.slot
           /\ last' = [Call("addProfileToCategory", 0, o.ret, o.wrote, <<>>)
                          EXCEPT !.run = IF o.ret = "true"
                                         THEN NextRun(slot, categoryId, profile)
                                         ELSE NoRun]
    /\ UNCHANGED <<uuid, deleted, pc, local, out>>

RemoveProfileFromCategory(categoryId, profileId, full) ==
    /\ LET o == removeProfileFromCategory(slot, categoryId, profileId, full)
       IN  /\ slot' = o.slot
           /\ last' = Call("removeProfileFromCategory", 0, o.ret, o.wrote, <<>>)
    /\ UNCHANGED <<uuid, deleted, pc, local, out>>

DeleteCategory(categoryId, full) ==
    /\ LET o == deleteCategory(slot, categoryId, full)
       IN  /\ slot' = o.slot
           /\ last' = Call("deleteCategory", 0, o.ret, o.wrote, <<>>)
           /\ deleted' = IF o.ret = "true" THEN deleted \cup {categoryId}
                         ELSE deleted
    /\ UNCHANGED <<uuid, pc, local, out>>

\* values a caller may hand to writeCategories
WriteArgs ==
    { NotArr("undefined"), NotArr("object"), NotArr("string"),
      Arr(<<>>), Arr(<<Category("c1", "Work", <<P1>>)>>) }

WriteCategories(categories, full) ==
    /\ LET o == writeCategoriesCall(slot, categories, full)
       IN  /\ slot' = o.slot
           /\ last' = Call("writeCategories", 0,
                           IF o.ret = "true" THEN "void" ELSE o.ret, o.wrote, <<>>)
    /\ UNCHANGED <<uuid, deleted, pc, local, out>>

\* readCategories() of src/app.js
ReadCategoriesApp ==
    /\ last' = Call("readCategoriesApp", 0, "return", FALSE, readCategoriesApp(slot))
    /\ UNCHANGED <<slot, uuid, deleted, pc, local, out>>

(***************************************************************************)
(* addCategoryForm submit handler, src/app.js lines 326-349                *)
(***************************************************************************)
AddCategorySubmit(nameInput, keywordInput, full) ==
    LET name == Trim(nameInput)
        keyword == Trim(keywordInput)
        categories == readCategoriesApp(slot)
        category == Item("object", randomUUID(uuid + 1), name, keyword, Arr(<<>>))
        o == writeCategoriesApp(slot, Append(categories, category), full)
    IN  IF name = "" \/ keyword = ""
        THEN /\ last' = Call("addCategorySubmit", 0, "rejected", FALSE, <<>>)
             /\ UNCHANGED <<slot, uuid, deleted, pc, local, out>>
        ELSE /\ uuid < MaxUuid
             /\ Len(categories) < MaxCats
             /\ uuid' = uuid + 1
             /\ slot' = o.slot
             /\ last' = Call("addCategorySubmit", 0, o.ret, o.wrote, <<>>)
             /\ UNCHANGED <<deleted, pc, local, out>>

(***************************************************************************)
(* Normalizer.  A typed URL is modelled by what `new URL` makes of it:     *)
(* kind "blank" (empty or white space), "malformed" (new URL throws) or    *)
(* "url", with its scheme, its host as typed (a sequence of characters)    *)
(* and the segments of its path between the slashes.                       *)
(***************************************************************************)
Url(kind, scheme, host, path) ==
    [kind |-> kind, scheme |-> scheme, host |-> host, path |-> path]

\* the schemes whose host the URL parser lower-cases
SpecialSchemes == {"http", "https"}

ToLower(c) ==
    CASE c = "I" -> "i"
      [] c = "W" -> "w"
      [] c = "C" -> "c"
      [] OTHER -> c

LowerCase(chars) == [i \in 1..Len(chars) |-> ToLower(chars[i])]

\* u.hostname
Hostname(u) == IF u.scheme \in SpecialSchemes THEN LowerCase(u.host) ELSE u.host

StartsWith(chars, prefix) ==
    /\ Len(prefix) <= Len(chars)
    /\ SubSeq(chars, 1, Len(prefix)) = prefix

EndsWith(chars, suffix) ==
    /\ Len(suffix) <= Len(chars)
    /\ SubSeq(chars, Len(chars) - Len(suffix) + 1, Len(chars)) = suffix

WwwDot == <<"w", "w", "w", ".">>
InstagramCom == <<"i", "n", "s", "t", "a", "g", "r", "a", "m", ".", "c", "o", "m">>

\* hostname.replace(/^www\./, '')
StripWww(hostname) ==
    IF StartsWith(hostname, WwwDot)
    THEN SubSeq(hostname, Len(WwwDot) + 1, Len(hostname))
    ELSE hostname

\* /instagram\.com$/i.test(hostname)
HostTest(hostname) == EndsWith(LowerCase(hostname), InstagramCom)

\* u.pathname.split('/').filter(Boolean)
PathParts(u) ==
    LET NonEmpty(seg) == seg # ""
    IN  SelectSeq(<<"">> \o u.path, NonEmpty)

Normalized(username) ==
    [ok |-> TRUE, username |-> username,
     url |-> "https://instagram.com/" \o username]

NullResult == [ok |-> FALSE, username |-> Undefined, url |-> Undefined]

\* src/utils.ts lines 110-141
normalizeInstagramUrl(u) ==
    IF u.kind = "blank" THEN NullResult
    ELSE IF u.kind = "malformed" THEN NullResult
    ELSE IF ~HostTest(StripWww(Hostname(u))) THEN NullResult
    ELSE IF Len(PathParts(u)) = 0 THEN NullResult
    ELSE Normalized(PathParts(u)[1])

\* src/app.js lines 47-59
normalizeInstagramUrlApp(u) ==
    IF u.kind \in {"blank", "malformed"} THEN NullResult
    ELSE IF ~HostTest(StripWww(Hostname(u))) THEN NullResult
    ELSE IF Len(PathParts(u)) = 0 THEN NullResult
    ELSE Normalized(PathParts(u)[1])

Chars(word) ==
    CASE word = "not" -> <<"n", "o", "t">>
      [] word = "help." -> <<"h", "e", "l", "p", ".">>
      [] word = "www." -> WwwDot
      [] word = "WWW." -> <<"W", "W", "W", ".">>
      [] word = ".evil.io" -> <<".", "e", "v", "i", "l", ".", "i", "o">>
      [] word = "Instagram.Com" ->
            <<"I", "n", "s", "t", "a", "g", "r", "a", "m", ".", "C", "o", "m">>
      [] word = "instagramxcom" ->
            <<"i", "n", "s", "t", "a", "g", "r", "a", "m", "x", "c", "o", "m">>
      [] word = "example.com" ->
            <<"e", "x", "a", "m", "p", "l", "e", ".", "c", "o", "m">>
      [] OTHER -> <<>>

HostInputs ==
    { Chars(pre) \o dom \o Chars(post) :
        pre \in {"", "www.", "WWW.", "not", "help."},
        dom \in {InstagramCom, Chars("Instagram.Com"), Chars("instagramxcom"),
                 Chars("example.com")},
        post \in {"", ".evil.io"} }

PathInputs == {<<>>, <<"jdoe">>, <<"jdoe", "">>, <<"", "jdoe">>, <<"p", "Cx1">>}

UrlInputs ==
    {Url("blank", "", <<>>, <<>>), Url("malformed", "", <<>>, <<>>)}
    \cup {Url("url", sch, h, p) :
            sch \in {"https", "http", "foo"}, h \in HostInputs, p \in PathInputs}

Applied(fn, arg, ret) == [fn |-> fn, arg |-> arg, ret |-> ret]

\* `out` holding the input a function is about to be applied to
Input(arg) == Applied("input", arg, NullResult)

NormalizeInstagramUrl ==
    /\ out.fn = "input"
    /\ out' = Applied("normalizeInstagramUrl", out.arg, normalizeInstagramUrl(out.arg))
    /\ UNCHANGED <<slot, uuid, last, deleted, pc, local>>

NormalizeInstagramUrlApp ==
    /\ out.fn = "input"
    /\ out' = Applied("normalizeInstagramUrlApp", out.arg,
                      normalizeInstagramUrlApp(out.arg))
    /\ UNCHANGED <<slot, uuid, last, deleted, pc, local>>

\* JavaScript truthiness of a scalar
Truthy(v) == v \notin {Undefined, Missing, JNull, ""}

(***************************************************************************)
(* Constructors of src/utils.ts.  A call ends by returning a value or by   *)
(* throwing.  Arrays are objects on a heap: a reference names one array,   *)
(* so that a copy and an alias of the caller's array differ.               *)
(***************************************************************************)
Returned(value) == [threw |-> FALSE, value |-> value]
Threw(error) == [threw |-> TRUE, value |-> [error |-> error]]

\* typeof v !== 'string' || !v.trim()
NotNonEmptyString(v) == TypeOf(v) # "string" \/ Trim(v) = ""

\* a variant that stores the name as given
createProfileUntrimmed(name, username, imageDataUrl, n) ==
    IF NotNonEmptyString(name) THEN Threw("TypeError")
    ELSE IF NotNonEmptyString(username) THEN Threw("TypeError")
    ELSE Returned(Profile(randomUUID(n + 1), name, Trim(username),
                          IF imageDataUrl # Undefined /\ Truthy(Trim(imageDataUrl))
                          THEN Trim(imageDataUrl) ELSE Undefined))

\* n identifiers have been issued before the call
createProfile(name, username, imageDataUrl, n) ==
    IF NotNonEmptyString(name) THEN Threw("TypeError")
    ELSE IF NotNonEmptyString(username) THEN Threw("TypeError")
    ELSE Returned(Profile(randomUUID(n + 1), Trim(name), Trim(username),
                          IF imageDataUrl # Undefined /\ Truthy(Trim(imageDataUrl))
                          THEN Trim(imageDataUrl) ELSE Undefined))

\* references to the caller's array and to the array a spread creates
CallerRef == "caller"
SpreadRef == "spread"
Refs == {CallerRef, SpreadRef}

\* the heap before a call: the caller's array, the other reference unused
HeapOf(given) == [r \in Refs |-> IF r = CallerRef THEN given ELSE NotArr("undefined")]

\* the outcome of createCategory and the heap after it
Created(ret, heap) == [ret |-> ret, heap |-> heap]

\* a variant that keeps the caller's array (profiles: profiles)
createCategoryAliased(name, profiles, heap, n) ==
    LET source == IF profiles = Undefined THEN Arr(<<>>) ELSE heap[profiles]
    IN  IF NotNonEmptyString(name) THEN Created(Threw("TypeError"), heap)
        ELSE IF ~source.isArray THEN Created(Threw("TypeError"), heap)
        ELSE IF profiles = Undefined
        THEN Created(Returned([id |-> randomUUID(n + 1), name |-> Trim(name),
                               profiles |-> SpreadRef]),
                     [heap EXCEPT ![SpreadRef] = source])
        ELSE Created(Returned([id |-> randomUUID(n + 1), name |-> Trim(name),
                               profiles |-> profiles]),
                     heap)

\* profiles is a reference, or Undefined when the argument is left out (the
\* default [] applies); [...profiles] allocates a new array
createCategory(name, profiles, heap, n) ==
    LET source == IF profiles = Undefined THEN Arr(<<>>) ELSE heap[profiles]
    IN  IF NotNonEmptyString(name) THEN Created(Threw("TypeError"), heap)
        ELSE IF ~source.isArray THEN Created(Threw("TypeError"), heap)
        ELSE Created(Returned([id |-> randomUUID(n + 1), name |-> Trim(name),
                               profiles |-> SpreadRef]),
                     [heap EXCEPT ![SpreadRef] = source])

ProfileNameInputs == {"", " ", "Jane", " Jane "}
UsernameInputs == {"", " ", "jdoe", " jdoe "}
ImageInputs == {Undefined, "", " ", "data:image/png;base64,AA",
                " data:image/png;base64,AA "}
ProfilesInputs == {Arr(<<>>), Arr(<<P1>>), Arr(<<P1, P2>>), NotArr("string")}

\* a completed call of a function that works on the heap
AppliedOnHeap(fn, arg, ret, heap) ==
    [fn |-> fn, arg |-> arg, ret |-> ret, heap |-> heap]

CreateProfile(name, username, imageDataUrl) ==
    LET ret == createProfile(name, username, imageDataUrl, uuid)
    IN  /\ ret.threw \/ uuid < MaxUuid
        /\ out' = Applied("createProfile",
                          [name |-> name, username |-> username,
                           imageDataUrl |-> imageDataUrl],
                          ret)
        /\ uuid' = IF ret.threw THEN uuid ELSE uuid + 1
        /\ UNCHANGED <<slot, last, deleted, pc, local>>

CreateCategory(name, given, omitted) ==
    LET c == createCategory(name, IF omitted THEN Undefined ELSE CallerRef,
                            HeapOf(given), uuid)
    IN  /\ c.ret.threw \/ uuid < MaxUuid
        /\ out' = AppliedOnHeap("createCategory",
                                [name |-> name, profiles |-> given,
                                 omitted |-> omitted],
                                c.ret, c.heap)
        /\ uuid' = IF c.ret.threw THEN uuid ELSE uuid + 1
        /\ UNCHANGED <<slot, last, deleted, pc, local>>

\* the caller pushes onto its own array after createCategory has returned
CallerPush(profile) ==
    /\ out.fn = "createCategory"
    /\ out.heap[CallerRef].isArray
    /\ Len(out.heap[CallerRef].elems) < MaxProfiles
    /\ out' = [out EXCEPT !.heap[CallerRef].elems = Append(@, profile)]
    /\ UNCHANGED <<slot, uuid, last, deleted, pc, local>>

(***************************************************************************)
(* instaDeepLink, both copies.  A username is a sequence of characters, so *)
(* that trimming and percent-encoding work on what it holds.               *)
(***************************************************************************)
\* String.prototype.trim on a sequence of characters
RECURSIVE TrimChars(_)
TrimChars(chars) ==
    IF chars = <<>> THEN <<>>
    ELSE IF Head(chars) = " " THEN TrimChars(Tail(chars))
    ELSE IF chars[Len(chars)] = " " THEN TrimChars(SubSeq(chars, 1, Len(chars) - 1))
    ELSE chars

\* encodeURIComponent of one character: unreserved characters stay, the
\* others become their UTF-8 bytes in %XX form
EncodeChar(c) ==
    CASE c = " " -> "%20"
      [] c = "/" -> "%2F"
      [] c = "?" -> "%3F"
      [] c = "&" -> "%26"
      [] OTHER -> c

RECURSIVE encodeURIComponent(_)
encodeURIComponent(chars) ==
    IF chars = <<>> THEN ""
    ELSE EncodeChar(Head(chars)) \o encodeURIComponent(Tail(chars))

DeepLink(encodedUsername) ==
    [appUrl |-> "instagram://user?username=" \o encodedUsername,
     webUrl |-> "https://instagram.com/" \o encodedUsername]

\* src/utils.ts
instaDeepLink(username) ==
    IF TrimChars(username) = <<>> THEN Threw("TypeError")
    ELSE Returned(DeepLink(encodeURIComponent(username)))

\* src/app.js: no check of the username
instaDeepLinkApp(username) == Returned(DeepLink(encodeURIComponent(username)))

\* the sequences over S of length at most n
SeqsUpTo(S, n) == UNION {[1..k -> S] : k \in 0..n}

UsernameChars == {"j", " ", "/"}
MaxUsername == 3
DeepLinkInputs == SeqsUpTo(UsernameChars, MaxUsername)

InstaDeepLink(username) ==
    /\ out' = Applied("instaDeepLink", [username |-> username], instaDeepLink(username))
    /\ UNCHANGED <<slot, uuid, last, deleted, pc, local>>

InstaDeepLinkApp(username) ==
    /\ out' = Applied("instaDeepLinkApp", [username |-> username],
                      instaDeepLinkApp(username))
    /\ UNCHANGED <<slot, uuid, last, deleted, pc, local>>

(***************************************************************************)
(* fetchImageAsDataUrl, both copies.  The promise an async function        *)
(* returns is fulfilled, rejected, or never settled.  env is what the      *)
(* network and the FileReader do during the call.                          *)
(***************************************************************************)
Fulfilled(result) == [state |-> "fulfilled", value |-> [result |-> result]]
Rejected(error) == [state |-> "rejected", value |-> [error |-> error]]
Pending == [state |-> "pending", value |-> [result |-> Undefined]]

\* "offline": fetch rejects; "status404": response.ok is false; "blobFails":
\* response.blob() rejects; "readError": the reader fires error;
\* "notString": the reader loads a result that is no string
ImageEnvs == {"ok", "offline", "status404", "blobFails", "readError", "notString"}

\* src/utils.ts lines 262-297: `return new Promise(...)` inside the try block
\* is not awaited, so the catch block does not see its rejection
fetchImageAsDataUrl(imageUrl, env) ==
    IF NotNonEmptyString(imageUrl) THEN Rejected("TypeError")
    ELSE IF env \in {"offline", "status404", "blobFails"} THEN Fulfilled(JNull)
    ELSE IF env \in {"readError", "notString"} THEN Rejected("Error")
    ELSE Fulfilled("data:image/jpeg;base64,BB")

\* src/app.js lines 305-317: response.ok is not looked at, and the promise
\* has no reject: it settles only when the reader fires load
fetchImageAsDataUrlApp(imageUrl, env) ==
    IF env \in {"offline", "blobFails"} THEN Fulfilled(JNull)
    ELSE IF env = "status404" THEN Fulfilled("data:text/html;base64,CC")
    ELSE IF env = "readError" THEN Pending
    ELSE IF env = "notString" THEN Fulfilled(JNull)
    ELSE Fulfilled("data:image/jpeg;base64,BB")

ImageUrlInputs == {"", " ", "https://cdn/x.jpg"}

FetchImageAsDataUrl(imageUrl, env) ==
    /\ out' = Applied("fetchImageAsDataUrl", [imageUrl |-> imageUrl, env |-> env],
                      fetchImageAsDataUrl(imageUrl, env))
    /\ UNCHANGED <<slot, uuid, last, deleted, pc, local>>

FetchImageAsDataUrlApp(imageUrl, env) ==
    /\ out' = Applied("fetchImageAsDataUrlApp",
                      [imageUrl |-> imageUrl, env |-> env],
                      fetchImageAsDataUrlApp(imageUrl, env))
    /\ UNCHANGED <<slot, uuid, last, deleted, pc, local>>

(***************************************************************************)
(* getCurrentCategory of src/utils.ts and the calls of the two lookups.    *)
(* The argument is what urlParams.get('category') returns: null when the   *)
(* URL has no such parameter, otherwise its (decoded) value.               *)
(***************************************************************************)
getCurrentCategory(raw, categoryId) ==
    IF ~Truthy(categoryId) THEN NullItem
    ELSE LET categories == readCategories(raw)
             i == findIndex(categories, categoryId)
         IN  IF i = 0 THEN NullItem ELSE categories[i]

QueryInputs == {JNull, "", " ", "c1", "zz"}
LookupIdInputs == {"", " ", "c1", "zz"}

GetCurrentCategory(query) ==
    /\ out' = Applied("getCurrentCategory", [query |-> query],
                      getCurrentCategory(slot, query))
    /\ UNCHANGED <<slot, uuid, last, deleted, pc, local>>

FindCategoryById(categoryId) ==
    /\ out' = Applied("findCategoryById", [categoryId |-> categoryId],
                      findCategoryById(slot, categoryId))
    /\ UNCHANGED <<slot, uuid, last, deleted, pc, local>>

(***************************************************************************)
(* addForm submit handler, src/app.js lines 242-303.  One handler per open *)
(* page (tab); the pages share the slot.  The handler suspends at each     *)
(* await, and other handlers run in between.                               *)
(***************************************************************************)
Tabs == {1, 2}

\* getCurrentCategory() of src/app.js: the id found, or Undefined for null
getCurrentCategoryApp(raw, categoryId) ==
    LET categories == readCategoriesApp(raw)
    IN  IF ~Truthy(categoryId) THEN Undefined
        ELSE IF findIndex(categories, categoryId) = 0 THEN Undefined
        ELSE categoryId

\* what fetchInstagramProfile(username) resolves to (src/app.js lines 84-112):
\* the remote record, or the fallback when the request or the record fails;
\* the last record is a user object without full name, username and picture
RemoteUsers ==
    { [ok |-> FALSE, full_name |-> Undefined, username |-> Undefined, pic |-> Undefined],
      [ok |-> TRUE, full_name |-> "Jane", username |-> "jdoe", pic |-> "https://cdn/x.jpg"],
      [ok |-> TRUE, full_name |-> "", username |-> Undefined, pic |-> Undefined] }

fetchInstagramProfileApp(username, remote) ==
    IF remote.ok
    THEN [name |-> IF Truthy(remote.full_name) THEN remote.full_name ELSE username,
          username |-> remote.username,
          imageUrl |-> remote.pic]
    ELSE [name |-> username, username |-> username, imageUrl |-> JNull]

\* local variables of a handler; query is the category parameter of the
\* page's URL (null when the URL has none), status the outcome of the page's last submission
Locals(query, status, data, image, categories, currentId, id) ==
    [query |-> query, status |-> status, data |-> data, image |-> image,
     categories |-> categories, currentId |-> currentId, id |-> id]

NoData == [name |-> Undefined, username |-> Undefined, imageUrl |-> Undefined]

FreshLocals(query) ==
    Locals(query, "none", NoData, Undefined, <<>>, Undefined, Undefined)

\* lines 248-262: the URL is normalized; a rejected URL ends the handler
Submit(s, u) ==
    /\ pc[s] = "idle"
    /\ LET norm == normalizeInstagramUrlApp(u)
       IN  IF ~norm.ok
           THEN /\ local' = [local EXCEPT ![s] =
                                [FreshLocals(@.query) EXCEPT !.status = "invalidUrl"]]
                /\ pc' = pc
           ELSE /\ local' = [local EXCEPT ![s] =
                                [FreshLocals(@.query) EXCEPT
                                    !.status = "running",
                                    !.data = [NoData EXCEPT !.username = norm.username]]]
                /\ pc' = [pc EXCEPT ![s] = "fetchProfile"]
    /\ UNCHANGED <<slot, uuid, last, deleted, out>>

\* line 266: await fetchInstagramProfile(norm.username) resolves
ProfileFetched(s, remote) ==
    /\ pc[s] = "fetchProfile"
    /\ local' = [local EXCEPT ![s].data =
                     fetchInstagramProfileApp(@.username, remote)]
    /\ pc' = [pc EXCEPT ![s] = "readFile"]
    /\ UNCHANGED <<slot, uuid, last, deleted, out>>

\* a variant that reads the document again when the continuation runs
CategoriesReadAgain(loc) == readCategoriesApp(slot)

\* the constant `categories` of line 269, as the continuation after the
\* awaits still holds it
CategoriesRead(loc) == loc.categories

\* lines 286-295 and the catch of lines 296-298: the profile is pushed onto
\* the categories the handler read at line 269, and those are written; the
\* handler returns, and profileData goes out of scope
Update(s, loc, profile, full) ==
    LET categories == CategoriesRead(loc)
        categoryIndex == findIndex(categories, loc.currentId)
        o == IF categoryIndex = 0 THEN Outcome(slot, "void", FALSE)
             ELSE IF ~categories[categoryIndex].profiles.isArray
             THEN Outcome(slot, "throw", FALSE)     \* .profiles.push is no function
             ELSE writeCategoriesApp(slot, Push(categories, categoryIndex, profile), full)
    IN  /\ slot' = o.slot
        /\ last' = Call("addFormSubmit", s, o.ret, o.wrote, <<>>)
        /\ local' = [local EXCEPT ![s] =
                        [loc EXCEPT !.status = IF o.ret = "throw" THEN "failed"
                                               ELSE IF o.wrote THEN "saved"
                                               ELSE "closed",
                                    !.data = NoData,
                                    !.image = profile.imageDataUrl]]
        /\ pc' = [pc EXCEPT ![s] = "idle"]

\* lines 268-284: await fileToDataUrl(file) settles (file is "none", "data"
\* or "error"); the document and the current category are read; the profile
\* is completed at once unless the remote image has to be fetched
FileRead(s, file, full) ==
    /\ pc[s] = "readFile"
    /\ LET imageDataUrl == IF file = "data" THEN "data:image/png;base64,AA" ELSE Undefined
           categories == readCategoriesApp(slot)
           currentId == getCurrentCategoryApp(slot, local[s].query)
           data == local[s].data
           id == randomUUID(uuid + 1)
           loc == [local[s] EXCEPT !.categories = categories,
                                   !.currentId = currentId, !.id = id]
       IN  IF file = "error" \/ (Truthy(local[s].query) /\ FindThrows(categories, local[s].query))
           THEN /\ local' = [local EXCEPT ![s].status = "failed", ![s].data = NoData]
                /\ pc' = [pc EXCEPT ![s] = "idle"]
                /\ UNCHANGED <<slot, uuid, last>>
           ELSE IF currentId = Undefined
           THEN /\ local' = [local EXCEPT ![s].status = "noCategory", ![s].data = NoData]
                /\ pc' = [pc EXCEPT ![s] = "idle"]
                /\ UNCHANGED <<slot, uuid, last>>
           ELSE /\ uuid < MaxUuid
                /\ Len(categories[findIndex(categories, currentId)].profiles.elems)
                       < MaxProfiles
                /\ uuid' = uuid + 1
                /\ IF Truthy(imageDataUrl) \/ ~Truthy(data.imageUrl)
                   THEN Update(s, loc,
                               Profile(id, data.name, data.username,
                                       IF Truthy(imageDataUrl) THEN imageDataUrl ELSE JNull),
                               full)
                   ELSE /\ local' = [local EXCEPT ![s] = loc]
                        /\ pc' = [pc EXCEPT ![s] = "fetchImage"]
                        /\ UNCHANGED <<slot, last>>
    /\ UNCHANGED <<deleted, out>>

\* line 283: await fetchImageAsDataUrl(profileData.imageUrl) settles (src/app.js
\* lines 305-317); while the promise is pending the handler stays where it is
ImageFetched(s, env, full) ==
    /\ pc[s] = "fetchImage"
    /\ LET image == fetchImageAsDataUrlApp(local[s].data.imageUrl, env)
       IN  /\ image.state = "fulfilled"
           /\ Update(s, local[s],
                     Profile(local[s].id, local[s].data.name, local[s].data.username,
                             image.value.result),
                     full)
    /\ UNCHANGED <<uuid, deleted, out>>

(***************************************************************************)
(* Initial states and specifications.                                      *)
(***************************************************************************)
\* elements a stored array may hold: categories, and records that are not
\* Category-shaped
GoodItems ==
    { Category("c1", "Work", <<>>), Category("c1", "Work", <<StringifyEntry(P1)>>),
      Item("object", "c2", "Fun", "kw", Arr(<<P2, NullEntry>>)) }

BadItems ==
    { Item("null", Missing, Missing, Missing, NotArr("undefined")),
      Item("array", Missing, Missing, Missing, NotArr("undefined")),
      Item("object", JNumber, "Work", Missing, Arr(<<>>)),
      Item("object", "c1", Missing, Missing, Arr(<<StringifyEntry(P1)>>)),
      Item("object", "c2", "Fun", Missing, NotArr("undefined")),
      Item("object", "c1", "Work", Missing, NotArr("string")) }

ItemInputs == GoodItems \cup BadItems

SlotInputs ==
    { Absent, Text("empty", FALSE, <<>>), Text("garbage", FALSE, <<>>),
      Text("object", FALSE, <<>>), Text("number", FALSE, <<>>) }
    \cup { Text("array", ws, items) :
             ws \in BOOLEAN, items \in SeqsUpTo(ItemInputs, MaxCats) }

InitRest ==
    /\ uuid = 0
    /\ last = NoCall
    /\ deleted = {}
    /\ pc = [s \in Tabs |-> "idle"]

\* any content of the slot
Init ==
    /\ slot \in SlotInputs
    /\ local = [s \in Tabs |-> FreshLocals(JNull)]
    /\ out = Input(Url("blank", "", <<>>, <<>>))
    /\ InitRest

\* a stored document of categories, or nothing stored
InitFault ==
    /\ slot \in {Absent} \cup { Text("array", ws, items) :
                                  ws \in BOOLEAN,
                                  items \in SeqsUpTo(GoodItems, MaxCats) }
    /\ local = [s \in Tabs |-> FreshLocals(JNull)]
    /\ out = Input(Url("blank", "", <<>>, <<>>))
    /\ InitRest

\* a fresh browser profile: nothing stored
InitEmpty ==
    /\ slot = Absent
    /\ local = [s \in Tabs |-> FreshLocals(JNull)]
    /\ out = Input(Url("blank", "", <<>>, <<>>))
    /\ InitRest

\* two pages open on a stored document, each on some category
InitApp ==
    /\ slot \in { JsonStringify(<<Category("c1", "Work", <<>>)>>),
                  JsonStringify(<<Category("c1", "Work", <<P1>>),
                                  Category("c2", "Fun", <<>>)>>) }
    /\ local \in [Tabs -> {FreshLocals(q) : q \in {"c1", "c2", JNull}}]
    /\ out = Input(Url("blank", "", <<>>, <<>>))
    /\ InitRest

\* a stored document, before any call of a constructor or converter
InitCalls ==
    /\ slot \in {Absent, JsonStringify(<<Category("c1", "Work", <<P1>>)>>)}
    /\ local = [s \in Tabs |-> FreshLocals(JNull)]
    /\ out = Input(Url("blank", "", <<>>, <<>>))
    /\ InitRest

\* categories a stored document may hold when a page looks one up; one of
\* them has an id of white space
QueryItems ==
    { Category("c1", "Work", <<>>), Category("c2", "Fun", <<StringifyEntry(P2)>>),
      Category(" ", "Blank", <<StringifyEntry(P1)>>) }

InitQuery ==
    /\ slot \in {Absent} \cup { Text("array", FALSE, items) :
                                  items \in SeqsUpTo(QueryItems, MaxCats) }
    /\ local = [s \in Tabs |-> FreshLocals(JNull)]
    /\ out = Input(Url("blank", "", <<>>, <<>>))
    /\ InitRest

\* a URL typed into the form
InitUrl ==
    /\ slot = Absent
    /\ local = [s \in Tabs |-> FreshLocals(JNull)]
    /\ out \in {Input(u) : u \in UrlInputs}
    /\ InitRest

\* calls of the store and of the repository operations on any document
Next ==
    \/ ReadCategories
    \/ ReadCategoriesApp
    \/ WriteBack(FALSE)
    \/ \E c \in CategoryIdArgs, p \in ProfileArgs : AddProfileToCategory(c, p, FALSE)
    \/ \E c \in CategoryIdArgs, i \in ProfileIdArgs :
            RemoveProfileFromCategory(c, i, FALSE)
    \/ \E c \in CategoryIdArgs : DeleteCategory(c, FALSE)

\* categories created by the page, and the repository operations on them
NextRepo ==
    \/ \E n \in NameInputs, k \in NameInputs : AddCategorySubmit(n, k, FALSE)
    \/ \E c \in IssuedIds, p \in ProfileArgs : AddProfileToCategory(c, p, FALSE)
    \/ \E c \in IssuedIds, i \in ProfileIdArgs :
            RemoveProfileFromCategory(c, i, FALSE)
    \/ \E c \in IssuedIds : DeleteCategory(c, FALSE)

AppUrlInputs ==
    { Url("url", "https", WwwDot \o InstagramCom, <<"jdoe", "">>),
      Url("url", "https", Chars("example.com"), <<"jdoe">>),
      Url("blank", "", <<>>, <<>>) }

NextApp ==
    \E s \in Tabs :
        \/ \E u \in AppUrlInputs : Submit(s, u)
        \/ \E r \in RemoteUsers : ProfileFetched(s, r)
        \/ \E f \in {"none", "data", "error"} : FileRead(s, f, FALSE)
        \/ \E e \in {"ok", "offline", "readError"} : ImageFetched(s, e, FALSE)

NextCalls ==
    \/ \E n \in ProfileNameInputs, u \in UsernameInputs, i \in ImageInputs :
            CreateProfile(n, u, i)
    \/ \E n \in NameInputs, g \in ProfilesInputs, o \in BOOLEAN :
            CreateCategory(n, g, o)
    \/ \E p \in ProfileArgs : CallerPush(p)
    \/ \E u \in DeepLinkInputs : InstaDeepLink(u)
    \/ \E u \in DeepLinkInputs : InstaDeepLinkApp(u)
    \/ \E i \in ImageUrlInputs, e \in ImageEnvs : FetchImageAsDataUrl(i, e)
    \/ \E i \in ImageUrlInputs, e \in ImageEnvs : FetchImageAsDataUrlApp(i, e)

NextQuery ==
    \/ \E q \in QueryInputs : GetCurrentCategory(q)
    \/ \E c \in LookupIdInputs : FindCategoryById(c)

NextUrl ==
    \/ NormalizeInstagramUrl
    \/ NormalizeInstagramUrlApp

\* arguments of the calls made on a storage that may refuse the write
FaultCategoryIds == {"c1", "zz"}
FaultProfileIds == {"p1", "zz"}

\* the repository operations and writeCategories on a storage that may
\* refuse the write
NextFault ==
    \E full \in BOOLEAN :
        \/ \E a \in WriteArgs : WriteCategories(a, full)
        \/ \E c \in FaultCategoryIds : AddProfileToCategory(c, P1, full)
        \/ \E c \in FaultCategoryIds, i \in FaultProfileIds :
                RemoveProfileFromCategory(c, i, full)
        \/ \E c \in FaultCategoryIds : DeleteCategory(c, full)

Spec == Init /\ [][Next]_vars
SpecRepo == InitEmpty /\ [][NextRepo]_vars
SpecApp == InitApp /\ [][NextApp]_vars
SpecUrl == InitUrl /\ [][NextUrl]_vars
SpecCalls == InitCalls /\ [][NextCalls]_vars
SpecQuery == InitQuery /\ [][NextQuery]_vars
SpecFault == InitFault /\ [][NextFault]_vars

(***************************************************************************)
(* Properties.                                                             *)
(***************************************************************************)
\* a Category as the data model describes it: an object with a string id,
\* a string name and an array of profiles
WellFormed(item) ==
    /\ item.kind = "object"
    /\ TypeOf(item.id) = "string"
    /\ TypeOf(item.name) = "string"
    /\ item.profiles.isArray

\* the stored text holds a category with this id
HasCategory(raw, categoryId) ==
    /\ raw.kind = "array"
    /\ \E i \in 1..Len(raw.items) :
          WellFormed(raw.items[i]) /\ raw.items[i].id = categoryId

\* C1: addProfileToCategory with a categoryId that matches no category of the
\* persisted document returns false and stores nothing: the text of the slot
\* after the call is the text before it.
C1_MissingCategoryNoWrite ==
    [][\A c \in CategoryIdArgs, p \in ProfileArgs :
          (AddProfileToCategory(c, p, FALSE) /\ ~HasCategory(slot, c))
              => (last'.ret = "false" /\ ~last'.wrote /\ slot' = slot)]_vars

\* C1 witness: the call returned false on a stored array that a write would
\* have changed (it carries white space and a record that is no category)
C1_Witness ==
    /\ last.op = "addProfileToCategory"
    /\ last.ret = "false"
    /\ slot.kind = "array"
    /\ slot.ws
    /\ \E i \in 1..Len(slot.items) : ~WellFormed(slot.items[i])

\* C2: when categoryId matches a category, addProfileToCategory returns true
\* and the document read afterwards is the document read before with the
\* profile (as JSON holds it) appended at the end of that category's
\* profiles; the other categories, their order and the earlier profiles of
\* the category are as before.
C2_AppendsToCategory ==
    [][\A c \in CategoryIdArgs, p \in ProfileArgs :
          (AddProfileToCategory(c, p, FALSE) /\ HasCategory(slot, c))
              => LET before == readCategories(slot)
                     after == readCategories(slot')
                 IN  /\ last'.ret = "true"
                     /\ \E i \in 1..Len(before) :
                           /\ before[i].id = c
                           /\ after = [before EXCEPT ![i].profiles.elems =
                                           Append(@, StringifyEntry(p))]]_vars

\* C2 witness: the call returned true on a document of two categories, and
\* a category now holds an earlier profile followed by another one
C2_Witness ==
    /\ last.op = "addProfileToCategory"
    /\ last.ret = "true"
    /\ Len(readCategories(slot)) = 2
    /\ \E i \in 1..Len(readCategories(slot)) :
          LET profiles == readCategories(slot)[i].profiles.elems
          IN  /\ Len(profiles) = 2
              /\ profiles[1].id # profiles[2].id

\* ids of the profiles of a category
ProfileIds(category) ==
    {category.profiles.elems[k].id : k \in 1..Len(category.profiles.elems)}

\* C3: in every document reached from the empty one by category creation and
\* the repository operations, category ids are pairwise distinct and profile
\* ids are pairwise distinct within each category.
C3_UniqueIds ==
    LET doc == readCategories(slot)
    IN  /\ \A i, j \in 1..Len(doc) : i # j => doc[i].id # doc[j].id
        /\ \A i \in 1..Len(doc) :
              \A a, b \in 1..Len(doc[i].profiles.elems) :
                  a # b => doc[i].profiles.elems[a].id # doc[i].profiles.elems[b].id

\* the category of a document an add-profile handler works on
Target(doc, categoryId) == doc[findIndex(doc, categoryId)]

\* two handlers have both stored their profile, each after reading the same
\* document (so both read before either wrote), and t wrote last
Overlapped(s, t) ==
    /\ s # t
    /\ pc[s] = "idle" /\ pc[t] = "idle"
    /\ local[s].status = "saved" /\ local[t].status = "saved"
    /\ local[s].categories = local[t].categories
    /\ last.op = "addFormSubmit" /\ last.by = t

\* C4: when two add-profile sequences both read the document before either
\* writes and both complete their write, the write of the first is lost: the
\* persisted document is the one both read plus the profile of the sequence
\* that wrote last, and holds the other profile nowhere.
C4_LastWriteWins ==
    \A s, t \in Tabs :
        Overlapped(s, t) =>
            LET doc == readCategoriesApp(slot)
                read == local[t].categories
            IN  /\ Len(doc) = Len(read)
                /\ \A i \in 1..Len(doc) : local[s].id \notin ProfileIds(doc[i])
                /\ LET was == Target(read, local[t].currentId).profiles.elems
                       now == Target(doc, local[t].currentId).profiles.elems
                   IN  /\ Len(now) = Len(was) + 1
                       /\ now[Len(now)].id = local[t].id

\* C4 witness: both sequences added to the same category, both completed
\* their write, and the category holds one profile more than was read
C4_Witness ==
    \E s, t \in Tabs :
        /\ Overlapped(s, t)
        /\ local[s].currentId = local[t].currentId
        /\ local[s].id # local[t].id
        /\ Len(Target(readCategoriesApp(slot), local[t].currentId).profiles.elems)
             = Len(Target(local[t].categories, local[t].currentId).profiles.elems) + 1

\* the host of a typed URL, lower-cased, without a leading "www."
ComparedHost(u) == StripWww(LowerCase(u.host))

\* C5: normalizeProfileUrl returns null for every valid URL whose host,
\* compared case-insensitively without a leading "www.", is not exactly
\* instagram.com.
C5_OnlyInstagramHost ==
    ( /\ out.fn \in {"normalizeInstagramUrl", "normalizeInstagramUrlApp"}
      /\ out.arg.kind = "url"
      /\ ComparedHost(out.arg) # InstagramCom )
        => ~out.ret.ok

\* C6: readDocument never fails and returns a sequence of Category-shaped
\* records whatever the slot holds, both in src/utils.ts and in src/app.js;
\* an absent slot, unparsable text and a JSON value that is no array give
\* the empty sequence.
C6_ReadsOnlyCategories ==
    last.op \in {"readCategories", "readCategoriesApp"} =>
        /\ last.ret = "return"
        /\ \A i \in 1..Len(last.value) : WellFormed(last.value[i])
        /\ slot.kind # "array" => last.value = <<>>

\* C7 as stated: a stored array with an element that is not Category-shaped
\* reads as the empty sequence.
C7_MalformedArrayReadsEmpty ==
    ( /\ last.op = "readCategories"
      /\ slot.kind = "array"
      /\ \E i \in 1..Len(slot.items) : ~WellFormed(slot.items[i]) )
        => last.value = <<>>

\* C7 amended: a stored array reads as the sequence of its Category-shaped
\* elements, in stored order; the other elements are left out one by one.
C7_ReadKeepsShapedRecords ==
    (last.op = "readCategories" /\ slot.kind = "array")
        => last.value = SelectSeq(slot.items, WellFormed)

\* C7 witness: a read of an array holding a record that is not
\* Category-shaped returned the records that are
C7_Witness ==
    /\ last.op = "readCategories"
    /\ slot.kind = "array"
    /\ \E i \in 1..Len(slot.items) : ~WellFormed(slot.items[i])
    /\ last.value # <<>>

\* C8: writeDocument(readDocument()) does not change what readDocument
\* returns, whatever the slot holds.
C8_RoundTrip ==
    [][WriteBack(FALSE) => readCategories(slot') = readCategories(slot)]_vars

\* C8 witness: a document with a keyword-carrying category and profiles was
\* written back
C8_Witness ==
    /\ last.op = "writeBack"
    /\ last.wrote
    /\ \E i \in 1..Len(readCategories(slot)) :
          /\ readCategories(slot)[i].keyword # Missing
          /\ readCategories(slot)[i].profiles.elems # <<>>

\* C9: once deleteCategory(id) has returned true, findCategoryById(id)
\* returns null, also after further addProfileToCategory,
\* removeProfileFromCategory and deleteCategory calls.
C9_DeletedStaysGone ==
    \A id \in deleted : findCategoryById(slot, id) = NullItem

\* C9 witness: after a deletion, a later add or remove succeeded on another
\* category
C9_Witness ==
    /\ deleted # {}
    /\ last.op \in {"addProfileToCategory", "removeProfileFromCategory"}
    /\ last.ret = "true"

\* C10: no profile id is contained in two different categories of a
\* document reached by the repository operations.
C10_ExclusiveOwnership ==
    LET doc == readCategories(slot)
    IN  \A i, j \in 1..Len(doc) :
            i # j => ProfileIds(doc[i]) \cap ProfileIds(doc[j]) = {}

\* every entry of the category's profiles is an object (none is null)
ObjectEntries(category) ==
    \A k \in 1..Len(category.profiles.elems) :
        category.profiles.elems[k].kind = "object"

\* the stored text holds no category with this id, or its category of this
\* id holds profile objects none of which has this profile id
NothingToRemove(raw, categoryId, profileId) ==
    LET doc == readCategories(raw)
        x == findIndex(doc, categoryId)
    IN  \/ x = 0
        \/ /\ x # 0
           /\ ObjectEntries(doc[x])
           /\ profileId \notin ProfileIds(doc[x])

C12_DeleteRemovesCategory ==
    [][\A c \in CategoryIdArgs :
          (last'.op = "deleteCategory" /\ DeleteCategory(c, FALSE))
              => LET before == readCategories(slot)
                     after == readCategories(slot')
                     Kept(k) == k.id # c
                 IN  /\ last'.ret \in {"true", "false"}
                     /\ (last'.ret = "true") <=> HasCategory(slot, c)
                     /\ last'.ret = "false" => (~last'.wrote /\ slot' = slot)
                     /\ last'.ret = "true"
                            => /\ last'.wrote
                               /\ after = SelectSeq(before, Kept)
                               /\ \A k \in 1..Len(after) : after[k].id # c]_vars

\* C12 witness: a deletion returned true and left another category, with
\* its profiles, in the document
C12_Witness ==
    /\ last.op = "deleteCategory"
    /\ last.ret = "true"
    /\ \E k \in 1..Len(readCategories(slot)) :
          readCategories(slot)[k].profiles.elems # <<>>

\* the stored category of this id holds profile objects, one with this id
HasProfile(raw, categoryId, profileId) ==
    /\ HasCategory(raw, categoryId)
    /\ ObjectEntries(Target(readCategories(raw), categoryId))
    /\ profileId \in ProfileIds(Target(readCategories(raw), categoryId))

\* the call threw the Error of a failed save and the slot is as before
SaveFailedLoudly ==
    /\ last'.ret = "throw"
    /\ ~last'.wrote
    /\ slot' = slot

\* C13: writeCategories with a value that is no array throws a TypeError
\* without touching the slot; when setItem throws, writeCategories throws
\* its Error, and addProfileToCategory, removeProfileFromCategory and
\* deleteCategory that reach the write end with that Error (neither true nor
\* false) while the slot text is as before the call.
C13_FailedWriteIsLoud ==
    [][/\ \A a \in WriteArgs, full \in BOOLEAN :
             (WriteCategories(a, full) /\ ~a.isArray)
                 => (last'.ret = "TypeError" /\ ~last'.wrote /\ slot' = slot)
       /\ \A a \in WriteArgs :
             (WriteCategories(a, TRUE) /\ a.isArray) => SaveFailedLoudly
       /\ \A c \in FaultCategoryIds :
             (AddProfileToCategory(c, P1, TRUE) /\ HasCategory(slot, c))
                 => SaveFailedLoudly
       /\ \A c \in FaultCategoryIds, i \in FaultProfileIds :
             (RemoveProfileFromCategory(c, i, TRUE) /\ HasProfile(slot, c, i))
                 => SaveFailedLoudly
       /\ \A c \in FaultCategoryIds :
             (DeleteCategory(c, TRUE) /\ HasCategory(slot, c))
                 => SaveFailedLoudly]_vars

\* C13 witness: a repository operation ended with the Error of a failed save
\* after an earlier write had stored a document with a profile
C13_Witness ==
    /\ last.op \in {"addProfileToCategory", "removeProfileFromCategory",
                    "deleteCategory"}
    /\ last.ret = "throw"
    /\ slot = JsonStringify(<<Category("c1", "Work", <<P1>>)>>)

\* a string with a character that is no white space
NonBlank(v) == TypeOf(v) = "string" /\ Trim(v) # ""

\* C14: in every document stored by the add-category and add-profile flows
\* and the repository operations, every category name, every profile name
\* and every profile username is a string that is not empty and not white
\* space only.
C14_NamesNonBlank ==
    LET doc == readCategoriesApp(slot)
    IN  \A i \in 1..Len(doc) :
            /\ NonBlank(doc[i].name)
            /\ \A k \in 1..Len(doc[i].profiles.elems) :
                  /\ NonBlank(doc[i].profiles.elems[k].name)
                  /\ NonBlank(doc[i].profiles.elems[k].username)

\* the identifiers issued so far
Issued == {randomUUID(k) : k \in 1..uuid}

\* C16: for a non-blank name and a profile sequence (or none), createCategory
\* returns a category with the trimmed name, an id that no earlier call has
\* issued, and a profiles array of its own that holds what the caller's
\* array held; a later push onto the caller's array leaves the category as
\* it was; createCategory does not touch the slot.
C16_CreateCategoryCopies ==
    [][/\ (/\ out'.fn = "createCategory"
           /\ CreateCategory(out'.arg.name, out'.arg.profiles, out'.arg.omitted)
           /\ NonBlank(out'.arg.name)
           /\ (out'.arg.omitted \/ out'.arg.profiles.isArray))
              => /\ ~out'.ret.threw
                 /\ out'.ret.value.name = Trim(out'.arg.name)
                 /\ NonBlank(out'.ret.value.name)
                 /\ out'.ret.value.id \notin Issued
                 /\ out'.ret.value.profiles # CallerRef
                 /\ out'.heap[out'.ret.value.profiles]
                        = (IF out'.arg.omitted THEN Arr(<<>>) ELSE out'.arg.profiles)
                 /\ slot' = slot
       /\ \A p \in ProfileArgs :
             (CallerPush(p) /\ ~out.ret.threw)
                 => /\ out'.ret = out.ret
                    /\ out'.heap[out'.ret.value.profiles]
                           = out.heap[out.ret.value.profiles]]_vars

\* C16 witness: a second category was created from " Work " and the
\* caller's array, and the caller's array has changed since
C16_Witness ==
    /\ out.fn = "createCategory"
    /\ ~out.ret.threw
    /\ uuid = 2
    /\ out.arg.name = " Work "
    /\ ~out.arg.omitted
    /\ out.heap[CallerRef] # out.arg.profiles
    /\ out.heap[out.ret.value.profiles] = out.arg.profiles

\* C17: createProfile throws a TypeError and returns nothing when name or
\* username is empty or white space only; otherwise it returns a profile
\* with an id no earlier call has issued, the trimmed name and the trimmed
\* username, whose imageDataUrl holds a value only if the given one is a
\* string that is non-empty after trimming.
C17_CreateProfileValidates ==
    [][(/\ out'.fn = "createProfile"
        /\ CreateProfile(out'.arg.name, out'.arg.username, out'.arg.imageDataUrl))
          => IF ~NonBlank(out'.arg.name) \/ ~NonBlank(out'.arg.username)
             THEN /\ out'.ret.threw
                  /\ out'.ret.value.error = "TypeError"
                  /\ uuid' = uuid
             ELSE /\ ~out'.ret.threw
                  /\ out'.ret.value.id \notin Issued
                  /\ out'.ret.value.name = Trim(out'.arg.name)
                  /\ out'.ret.value.username = Trim(out'.arg.username)
                  /\ NonBlank(out'.ret.value.name)
                  /\ NonBlank(out'.ret.value.username)
                  /\ out'.ret.value.imageDataUrl # Undefined
                        => /\ NonBlank(out'.arg.imageDataUrl)
                           /\ out'.ret.value.imageDataUrl
                                  = Trim(out'.arg.imageDataUrl)]_vars

\* C17 witness: a second profile was created from a padded name and a
\* white-space-only image, and it carries no image
C17_Witness ==
    /\ out.fn = "createProfile"
    /\ ~out.ret.threw
    /\ uuid = 2
    /\ out.arg.name = " Jane "
    /\ out.arg.imageDataUrl = " "
    /\ out.ret.value.imageDataUrl = Undefined

\* C15: fetchImageAsDataUrl with a non-empty url never hands a failure to its
\* caller: when the response has a non-success status, when the request
\* fails, and when reading the blob or encoding it fails, the promise is
\* fulfilled with null (it is neither rejected nor left pending).
C15_ImageFailureGivesNull ==
    (/\ out.fn \in {"fetchImageAsDataUrl", "fetchImageAsDataUrlApp"}
     /\ NonBlank(out.arg.imageUrl)
     /\ out.arg.env # "ok")
        => out.ret = Fulfilled(JNull)

\* C18: instaDeepLink throws a TypeError, and returns no links, for every
\* empty or white-space-only username; for any other username it returns
\* instagram://user?username=<encoded username> and
\* https://instagram.com/<encoded username>.
C18_DeepLinkValidates ==
    out.fn \in {"instaDeepLink", "instaDeepLinkApp"}
        => IF TrimChars(out.arg.username) = <<>>
           THEN out.ret.threw /\ out.ret.value.error = "TypeError"
           ELSE /\ ~out.ret.threw
                /\ out.ret.value.appUrl
                       = "instagram://user?username="
                             \o encodeURIComponent(out.arg.username)
                /\ out.ret.value.webUrl
                       = "https://instagram.com/"
                             \o encodeURIComponent(out.arg.username)

\* C19: when the stored category holds a profile with id profileId (its
\* entries being profile objects), removeProfileFromCategory returns true,
\* the category has one entry fewer, the remaining entries are in their
\* earlier order, every other category is unchanged, and no profile with
\* id profileId remains in the category.
C19_RemovesTheProfile ==
    [][\A c \in IssuedIds, i \in ProfileIdArgs :
          (RemoveProfileFromCategory(c, i, FALSE) /\ HasProfile(slot, c, i))
              => LET before == readCategories(slot)
                     after == readCategories(slot')
                     x == findIndex(before, c)
                 IN  /\ last'.ret = "true"
                     /\ Len(after) = Len(before)
                     /\ \A k \in 1..Len(before) : k # x => after[k] = before[k]
                     /\ \E j \in 1..Len(before[x].profiles.elems) :
                           /\ before[x].profiles.elems[j].id = i
                           /\ after[x] = [before[x] EXCEPT !.profiles.elems =
                                                              Splice(@, j)]
                     /\ i \notin ProfileIds(after[x])]_vars

\* C20: with the calls serialized, after a run of successful
\* addProfileToCategory calls on one category the category's profiles are
\* the profiles it held before the run followed by the added profiles in
\* call order.
C20_AddsKeptInCallOrder ==
    last.run.categoryId # Undefined
        => /\ HasCategory(slot, last.run.categoryId)
           /\ Target(readCategories(slot), last.run.categoryId).profiles.elems
                  = last.run.before \o last.run.added

\* C20 witness: a run of two adds has completed
C20_Witness ==
    /\ last.op = "addProfileToCategory"
    /\ Len(last.run.added) = 2
    /\ last.run.added[1] # last.run.added[2]

\* C21: getCurrentCategory returns null when the URL carries no category
\* parameter, and for every stored document and every value of the
\* parameter, blank and white-space-only values included, it returns what
\* findCategoryById returns for that value on the same document.
C21_AgreesWithFindCategoryById ==
    out.fn = "getCurrentCategory"
        => out.ret = (IF out.arg.query = JNull THEN NullItem
                      ELSE findCategoryById(slot, out.arg.query))

====
